---- MODULE Spec2Model ----
(***************************************************************************)
(* Model of the PUF PFP generator: the Gemini service module               *)
(* (services/geminiService, editImageWithPrompt) and its caller, the App   *)
(* component (App.tsx).                                                    *)
(*                                                                         *)
(* JavaScript values are modelled as follows.                              *)
(*   - a string is a sequence of tokens, so that template literals are     *)
(*     concatenations and "begins with" is a statement about sequences;    *)
(*     the empty string is the empty sequence;                             *)
(*   - an optional value (a property that may be missing, a variable that  *)
(*     may be undefined or null) is a sequence of length 0 or 1.           *)
(***************************************************************************)
EXTENDS Naturals, Sequences, FiniteSets, Bags, TLC

VARIABLES
    apiKey,             \* process.env.API_KEY: an optional string
    module,             \* evaluation of the service module: "unloaded", "ready", "failed"
    inv,                \* the invocations of editImageWithPrompt, by id
    originalImage,      \* App state (useState), each an optional value
    editedImage,
    isLoading,
    error,
    generatedAccessory,
    reading             \* FileReader reads in flight: a bag of files

vars == <<apiKey, module, inv, originalImage, editedImage, isLoading, error,
          generatedAccessory, reading>>
appVars == <<originalImage, editedImage, isLoading, error, generatedAccessory, reading>>

----------------------------------------------------------------------------
(* Bounds *)

MaxParts == 3
MaxInv == 2
MaxReads == 2

----------------------------------------------------------------------------
(* Optional values and strings *)

Absent == <<>>
Some(x) == <<x>>
Present(o) == Len(o) > 0
Get(o) == o[1]

Str(t) == <<t>>
EmptyString == <<>>

\* JavaScript truthiness of an optional string: undefined and "" are falsy.
Truthy(o) == Present(o) /\ Get(o) # EmptyString

\* `${x}` for an optional string: undefined is rendered as the text "undefined".
Interpolate(o) == IF Present(o) THEN Get(o) ELSE Str("undefined")

----------------------------------------------------------------------------
(* The response of ai.models.generateContent *)

Blob(d) == [data |-> d]
ImagePart(d) == [inlineData |-> Some(Blob(d)), text |-> Absent]
TextPart(s) == [inlineData |-> Absent, text |-> Some(s)]
Content(ps) == [parts |-> ps]
Candidate(c) == [content |-> c]
Response(cs) == [candidates |-> cs]

Payloads == {Str("AAAA"), Str("BBBB")}

PartKinds ==
    {TextPart(Str("ok"))}
        \cup {ImagePart(Some(d)) : d \in Payloads}
        \cup {ImagePart(Absent)}

SeqsUpTo(S, n) == UNION {[1..k -> S] : k \in 0..n}

PartLists == SeqsUpTo(PartKinds, MaxParts)

CandidateKinds ==
    {Candidate(Absent), Candidate(Some(Content(Absent)))}
        \cup {Candidate(Some(Content(Some(ps)))) : ps \in PartLists}

\* A second candidate, which the service never reads.
OtherCandidate == Candidate(Some(Content(Some(<<ImagePart(Some(Str("CCCC")))>>))))

Responses ==
    {Response(Absent), Response(Some(<<>>))}
        \cup {Response(Some(<<c>>)) : c \in CandidateKinds}
        \cup {Response(Some(<<c, OtherCandidate>>)) : c \in CandidateKinds}

\* What a throw statement may raise: an Error with its message, or any other
\* value (a string, an object with or without a message property, undefined).
Thrown(isErr, msg) == [isError |-> isErr, message |-> msg]

Faults ==
    {Thrown(TRUE, Some(Str("connection reset"))),
     Thrown(TRUE, Some(EmptyString)),
     Thrown(FALSE, Some(Str("boom"))),
     Thrown(FALSE, Absent)}

\* How the promise of generateContent settles.
NoResponse == Response(Absent)
NoFault == Thrown(FALSE, Absent)
Fulfilled(r) == [kind |-> "fulfilled", response |-> r, thrown |-> NoFault]
Rejected(t) == [kind |-> "rejected", response |-> NoResponse, thrown |-> t]
Pending == [kind |-> "pending", response |-> NoResponse, thrown |-> NoFault]

Outcomes == {Fulfilled(r) : r \in Responses} \cup {Rejected(t) : t \in Faults}

\* One outcome of each kind, for the specifications with several invocations.
SampleOutcomes ==
    {Fulfilled(Response(Some(<<Candidate(Some(Content(Some(<<ImagePart(Some(Str("AAAA")))>>))))>>))),
     Fulfilled(Response(Some(<<Candidate(Some(Content(Some(
         <<TextPart(Str("ok")), ImagePart(Some(Str("BBBB")))>>))))>>))),
     Fulfilled(Response(Some(<<Candidate(Some(Content(Some(<<ImagePart(Absent)>>))))>>))),
     Fulfilled(Response(Some(<<>>))),
     Rejected(Thrown(TRUE, Some(Str("connection reset")))),
     Rejected(Thrown(FALSE, Absent))}

----------------------------------------------------------------------------
(* services/geminiService: editImageWithPrompt *)

Prefix == "Failed to generate image: "
NoImageMessage == Str("No image data found in the API response.")
UnknownMessage == Str("An unknown error occurred.")

\* How an async function settles: return value or raised value.
Returned(v) == [kind |-> "returned", value |-> v, thrown |-> NoFault]
Threw(t) == [kind |-> "threw", value |-> Absent, thrown |-> t]
Unsettled == [kind |-> "none", value |-> Absent, thrown |-> NoFault]

\* response.candidates?.[0]?.content?.parts ?? []
PartsOf(response) ==
    IF ~Present(response.candidates) THEN <<>>
    ELSE IF Len(Get(response.candidates)) = 0 THEN <<>>
    ELSE IF ~Present(Get(response.candidates)[1].content) THEN <<>>
    ELSE IF ~Present(Get(Get(response.candidates)[1].content).parts) THEN <<>>
    ELSE Get(Get(Get(response.candidates)[1].content).parts)

\* for (const part of parts) { if (part.inlineData) return part.inlineData.data; }
\* throw new Error("No image data found in the API response.");
\* The scan run from the end of the list: the last image part wins.
RECURSIVE ScanPartsLast(_)
ScanPartsLast(parts) ==
    IF Len(parts) = 0 THEN Threw(Thrown(TRUE, Some(NoImageMessage)))
    ELSE IF Present(parts[Len(parts)].inlineData)
         THEN Returned(Get(parts[Len(parts)].inlineData).data)
         ELSE ScanPartsLast(SubSeq(parts, 1, Len(parts) - 1))

\* The scan without the throw after the loop: the function returns undefined.
RECURSIVE ScanPartsNoThrow(_)
ScanPartsNoThrow(parts) ==
    IF Len(parts) = 0 THEN Returned(Absent)
    ELSE IF Present(Head(parts).inlineData)
         THEN Returned(Get(Head(parts).inlineData).data)
         ELSE ScanPartsNoThrow(Tail(parts))

RECURSIVE ScanParts(_)
ScanParts(parts) ==
    IF Len(parts) = 0 THEN Threw(Thrown(TRUE, Some(NoImageMessage)))
    ELSE IF Present(Head(parts).inlineData)
         THEN Returned(Get(Head(parts).inlineData).data)
         ELSE ScanParts(Tail(parts))

\* The try block after the await: the awaited promise rejects, or the parts are scanned.
TryBody(outcome) ==
    IF outcome.kind = "rejected" THEN Threw(outcome.thrown)
    ELSE ScanParts(PartsOf(outcome.response))

\* catch (error): error instanceof Error ? error.message : "An unknown error occurred."
ErrorMessageOf(t) == IF t.isError THEN Get(t.message) ELSE UnknownMessage

\* The catch block rethrowing what it caught, unwrapped.
CatchBlockRethrow(t) == Threw(t)

CatchBlock(t) == Threw(Thrown(TRUE, Some(Str(Prefix) \o ErrorMessageOf(t))))

\* What editImageWithPrompt settles with, given how generateContent settled.
editImageWithPrompt(outcome) ==
    IF TryBody(outcome).kind = "threw" THEN CatchBlock(TryBody(outcome).thrown)
    ELSE TryBody(outcome)

----------------------------------------------------------------------------
(* The invocations of editImageWithPrompt *)

Inv == 1..MaxInv

Request(data, mimeType, prompt) ==
    [data |-> data, mimeType |-> mimeType, text |-> prompt,
     model |-> "gemini-2.5-flash-image", responseModalities |-> <<"IMAGE">>]

NoRequest == Request(EmptyString, EmptyString, EmptyString)

\* st: "Idle", "Requesting" (suspended at the await), "Succeeded", "Failed"
\* caller: who awaits the invocation: "none", "direct", "app" (handleGenerate)
\* calls: the number of generateContent calls the invocation has made
\* promise: how the promise of its generateContent call has settled
\* result: how the invocation itself has settled
IdleInvocation ==
    [st |-> "Idle", caller |-> "none", request |-> NoRequest, calls |-> 0,
     promise |-> Pending, result |-> Unsettled]

\* Module evaluation without the API_KEY check.
LoadModuleUnchecked ==
    /\ module = "unloaded"
    /\ module' = "ready"
    /\ UNCHANGED <<apiKey, inv, appVars>>

\* Module evaluation: the API_KEY check, then the client is constructed.
LoadModule ==
    /\ module = "unloaded"
    /\ module' = IF ~Truthy(apiKey) THEN "failed" ELSE "ready"
    /\ UNCHANGED <<apiKey, inv, appVars>>

\* editImageWithPrompt up to the await: the request is built and sent once.
Call(i, data, mimeType, prompt, caller) ==
    [inv EXCEPT ![i] = [st |-> "Requesting", caller |-> caller,
                        request |-> Request(data, mimeType, prompt),
                        calls |-> inv[i].calls + 1,
                        promise |-> Pending, result |-> Unsettled]]

\* The remote model answers the request of invocation i, or the transport fails.
RemoteReply(i, outcome) ==
    /\ inv[i].st = "Requesting"
    /\ inv[i].promise = Pending
    /\ inv' = [inv EXCEPT ![i].promise = outcome]
    /\ UNCHANGED <<apiKey, module, appVars>>

\* The await resuming with a response kept in one slot shared by all invocations.
AwaitedShared(i) ==
    inv[CHOOSE j \in Inv : inv[j].st = "Requesting" /\ inv[j].promise # Pending
                           /\ \A k \in Inv : (inv[k].st = "Requesting" /\ inv[k].promise # Pending)
                                                 => j >= k].promise

\* The value the await of invocation i resumes with: its own promise's.
Awaited(i) == inv[i].promise

StateOf(s) == IF s.kind = "returned" THEN "Succeeded" ELSE "Failed"

\* editImageWithPrompt sending the request again after a failure.
FinishRetry(i) ==
    IF StateOf(editImageWithPrompt(Awaited(i))) = "Failed" /\ inv[i].calls < 2
    THEN [inv EXCEPT ![i].calls = @ + 1, ![i].promise = Pending]
    ELSE [inv EXCEPT ![i].st = StateOf(editImageWithPrompt(Awaited(i))),
                     ![i].result = editImageWithPrompt(Awaited(i))]

\* editImageWithPrompt after the await, to its return or throw.
Finish(i) ==
    [inv EXCEPT ![i].st = StateOf(editImageWithPrompt(Awaited(i))),
                ![i].result = editImageWithPrompt(Awaited(i))]

----------------------------------------------------------------------------
(* A caller other than the App *)

Inputs ==
    {[data |-> Str("IMG1"), mimeType |-> Str("image/png"), prompt |-> Str("add a hat")],
     [data |-> Str("IMG2"), mimeType |-> Str("image/jpeg"), prompt |-> Str("add a chain")]}

Invoke(i, in) ==
    /\ module = "ready"
    /\ inv[i].st = "Idle"
    /\ inv' = Call(i, in.data, in.mimeType, in.prompt, "direct")
    /\ UNCHANGED <<apiKey, module, appVars>>

----------------------------------------------------------------------------
(* App.tsx *)

File(type, b64) == [type |-> type, b64 |-> b64]

Files == {File(Str("image/png"), Str("IMG1")), File(Str("image/jpeg"), Str("IMG2"))}

\* FileReader.readAsDataURL: "data:<type>;base64,<base64 of the content>"
fileToDataUri(file) == Str("data:") \o file.type \o <<";base64", ",">> \o file.b64

\* s.split(',')[1]: the text between the first comma and the next (or the end)
RECURSIVE UpToComma(_)
UpToComma(s) ==
    IF Len(s) = 0 \/ Head(s) = "," THEN <<>> ELSE <<Head(s)>> \o UpToComma(Tail(s))

RECURSIVE AfterComma(_)
AfterComma(s) ==
    IF Len(s) = 0 THEN Absent
    ELSE IF Head(s) = "," THEN Some(Tail(s))
    ELSE AfterComma(Tail(s))

SplitCommaSecond(s) ==
    IF Present(AfterComma(s)) THEN Some(UpToComma(Get(AfterComma(s)))) ELSE Absent

ImageFile(file) == [file |-> file, base64 |-> Interpolate(SplitCommaSecond(fileToDataUri(file)))]

\* The ImageUpload component is rendered only while there is no original image.
\* handleFileChange up to its await: a read of the chosen file starts.
handleFileChange(f) ==
    /\ module = "ready"
    /\ ~Present(originalImage)
    /\ BagCardinality(reading) < MaxReads
    /\ reading' = reading (+) SetToBag({f})
    /\ UNCHANGED <<apiKey, module, inv, originalImage, editedImage, isLoading, error,
                   generatedAccessory>>

handleImageUpload(image) ==
    /\ originalImage' = Some(image)
    /\ editedImage' = Absent
    /\ error' = Absent
    /\ generatedAccessory' = Absent

\* reader.onload: handleFileChange resumes and calls onImageUpload.
ReaderOnload(f) ==
    /\ BagIn(f, reading)
    /\ reading' = reading (-) SetToBag({f})
    /\ handleImageUpload(ImageFile(f))
    /\ UNCHANGED <<apiKey, module, inv, isLoading>>

\* reader.onerror: handleFileChange rejects, no state is set.
ReaderOnerror(f) ==
    /\ BagIn(f, reading)
    /\ reading' = reading (-) SetToBag({f})
    /\ UNCHANGED <<apiKey, module, inv, originalImage, editedImage, isLoading, error,
                   generatedAccessory>>

filterPrompt ==
    "Apply a cool, black and white security camera filter with a slight fish-eye lens effect to the image."
accessoryPrompt ==
    "Overlay a stylish chain with the letters 'PUF' on it. The chain should be appropriately placed on the main subject of the image, whether it's a person, animal, or object."
accessoryType == Str("PUF Chain")

\* handleGenerate up to the await of editImageWithPrompt
handleGenerate(i) ==
    IF ~Present(originalImage)
    THEN /\ error' = Some(Str("Please upload an image first."))
         /\ UNCHANGED <<inv, originalImage, editedImage, isLoading, generatedAccessory>>
    ELSE /\ inv[i].st = "Idle"
         /\ isLoading' = TRUE
         /\ error' = Absent
         /\ editedImage' = Absent
         /\ generatedAccessory' = Absent
         /\ inv' = Call(i, Get(originalImage).base64, Get(originalImage).file.type,
                        <<filterPrompt, " ", accessoryPrompt>>, "app")
         /\ UNCHANGED originalImage

\* The Generate button never disabled.
GenerateAlwaysEnabled == Present(originalImage)

\* The Generate button: rendered when there is an original image, disabled while loading.
GenerateEnabled == Present(originalImage) /\ ~isLoading

ClickGenerate ==
    /\ module = "ready"
    /\ GenerateEnabled
    /\ \E i \in Inv : handleGenerate(i)
    /\ UNCHANGED <<apiKey, module, reading>>

\* handleGenerate run without the button's guard: a click dispatched before the
\* disabled attribute of the last render is committed, or a direct call.
DispatchGenerate ==
    /\ module = "ready"
    /\ \E i \in Inv : handleGenerate(i)
    /\ UNCHANGED <<apiKey, module, reading>>

\* handleGenerate after the await: try, catch and finally
GenerateSettled(s) ==
    /\ IF s.kind = "returned"
       THEN /\ editedImage' = Some(Str("data:image/png;base64,") \o Interpolate(s.value))
            /\ generatedAccessory' = Some(accessoryType)
            /\ UNCHANGED error
       ELSE /\ error' = Some(ErrorMessageOf(s.thrown))
            /\ UNCHANGED <<editedImage, generatedAccessory>>
    /\ isLoading' = FALSE
    /\ UNCHANGED <<originalImage, reading>>

\* The await of invocation i resumes: editImageWithPrompt runs to its end, and
\* with it the continuation of the handler that awaits it.
Resume(i) ==
    /\ inv[i].st = "Requesting"
    /\ inv[i].promise # Pending
    /\ inv' = Finish(i)
    /\ IF inv[i].caller = "app"
       THEN GenerateSettled(inv'[i].result)
       ELSE UNCHANGED appVars
    /\ UNCHANGED <<apiKey, module>>

----------------------------------------------------------------------------
(* Specifications *)

Init ==
    /\ apiKey \in {Absent, Some(EmptyString), Some(Str("key"))}
    /\ module = "unloaded"
    /\ inv = [i \in Inv |-> IdleInvocation]
    /\ originalImage = Absent
    /\ editedImage = Absent
    /\ isLoading = FALSE
    /\ error = Absent
    /\ generatedAccessory = Absent
    /\ reading = EmptyBag

\* The App as rendered.
Next ==
    \/ LoadModule
    \/ \E f \in Files : handleFileChange(f)
    \/ \E f \in Files : ReaderOnload(f)
    \/ \E f \in Files : ReaderOnerror(f)
    \/ ClickGenerate
    \/ \E i \in Inv, o \in SampleOutcomes : RemoteReply(i, o)
    \/ \E i \in Inv : Resume(i)

Spec == Init /\ [][Next]_vars

\* The App with handleGenerate dispatched whatever the button shows.
NextDirect ==
    \/ LoadModule
    \/ \E f \in Files : handleFileChange(f)
    \/ \E f \in Files : ReaderOnload(f)
    \/ \E f \in Files : ReaderOnerror(f)
    \/ DispatchGenerate
    \/ \E i \in Inv, o \in SampleOutcomes : RemoteReply(i, o)
    \/ \E i \in Inv : Resume(i)

SpecDirect == Init /\ [][NextDirect]_vars

\* The service called by any caller, invocations overlapping.
NextConc ==
    \/ LoadModule
    \/ \E i \in Inv, in \in Inputs : Invoke(i, in)
    \/ \E i \in Inv, o \in SampleOutcomes : RemoteReply(i, o)
    \/ \E i \in Inv : Resume(i)

SpecConc == Init /\ [][NextConc]_vars

\* One invocation of the service, over every response shape and fault.
NextTransform ==
    \/ LoadModule
    \/ \E in \in Inputs : Invoke(1, in)
    \/ \E o \in Outcomes : RemoteReply(1, o)
    \/ Resume(1)

SpecTransform == Init /\ [][NextTransform]_vars

----------------------------------------------------------------------------
(* What the claims speak of *)

Terminal(i) == inv[i].st \in {"Succeeded", "Failed"}

\* The invocation's remote call answered with a response (it raised no fault).
Answered(i) == inv[i].promise.kind = "fulfilled"

\* The parts list of the first candidate of the response, <<>> when any level is missing.
HasParts(r) ==
    /\ r.candidates # Absent
    /\ Get(r.candidates) # <<>>
    /\ Get(r.candidates)[1].content # Absent
    /\ Get(Get(r.candidates)[1].content).parts # Absent

FirstParts(r) == IF HasParts(r) THEN Get(Get(Get(r.candidates)[1].content).parts) ELSE <<>>

\* The positions of the image-bearing parts.
ImagePositions(r) == {k \in 1..Len(FirstParts(r)) : FirstParts(r)[k].inlineData # Absent}

FirstImagePosition(r) ==
    CHOOSE k \in ImagePositions(r) : \A m \in ImagePositions(r) : k <= m

FirstImagePayload(r) == Get(FirstParts(r)[FirstImagePosition(r)].inlineData).data

\* The message of the Failure an invocation settled with.
FailureMessage(i) == Get(inv[i].result.thrown.message)

\* The message of the fault behind a failure: the raised value's, or the no-image one.
Underlying(i) ==
    IF Answered(i) THEN NoImageMessage ELSE Get(inv[i].promise.thrown.message)

\* What an invocation must settle with, given how its own remote call settled.
OwnSettlement(i) ==
    IF Answered(i) /\ ImagePositions(inv[i].promise.response) # {}
    THEN Returned(FirstImagePayload(inv[i].promise.response))
    ELSE Threw(Thrown(TRUE, Some(<<Prefix>> \o
            (IF Answered(i) THEN NoImageMessage
             ELSE IF inv[i].promise.thrown.isError THEN Get(inv[i].promise.thrown.message)
             ELSE UnknownMessage))))

----------------------------------------------------------------------------
(* Claims *)

\* C1: when the first candidate of the response has at least one part with
\* inlineData, the invocation succeeds with the payload of the first such part in
\* list order; the parts before and after it and the other candidates do not
\* change the result.
C1_FirstImageWins ==
    \A i \in Inv :
        (Terminal(i) /\ Answered(i) /\ ImagePositions(inv[i].promise.response) # {})
            => /\ inv[i].st = "Succeeded"
               /\ inv[i].result = Returned(FirstImagePayload(inv[i].promise.response))

\* A text part, then two image parts with different payloads, and a second candidate.
C1_Witness ==
    \E i \in Inv :
        /\ inv[i].st = "Succeeded"
        /\ inv[i].promise.response =
               Response(Some(<<Candidate(Some(Content(Some(
                   <<TextPart(Str("ok")), ImagePart(Some(Str("AAAA"))),
                     ImagePart(Some(Str("BBBB")))>>)))), OtherCandidate>>))
        /\ inv[i].result.value = Some(Str("AAAA"))

\* C2: when the remote call succeeds and the response carries no image part
\* (candidates absent or empty, no content, no parts, empty parts, only text
\* parts), the invocation fails with a message that says no image data was found.
C2_NoImageFails ==
    \A i \in Inv :
        (Terminal(i) /\ Answered(i) /\ ImagePositions(inv[i].promise.response) = {})
            => /\ inv[i].st = "Failed"
               /\ inv[i].result.kind = "threw"
               /\ inv[i].result.thrown.isError
               /\ \E k \in 1..Len(FailureMessage(i)) :
                      SubSeq(FailureMessage(i), k, Len(FailureMessage(i))) = NoImageMessage

\* The remote call answered with only a text part, and the invocation failed.
C2_Witness ==
    \E i \in Inv :
        /\ inv[i].st = "Failed"
        /\ inv[i].promise.kind = "fulfilled"
        /\ FirstParts(inv[i].promise.response) = <<TextPart(Str("ok"))>>

\* C3: every invocation settles either as Success with a present payload or as
\* Failure with a non-empty message; never with an absent payload.
C3_SuccessOrFailure ==
    \A i \in Inv :
        Terminal(i) =>
            \/ /\ inv[i].st = "Succeeded"
               /\ inv[i].result.kind = "returned"
               /\ inv[i].result.value # Absent
               /\ Get(inv[i].result.value) # EmptyString
            \/ /\ inv[i].st = "Failed"
               /\ inv[i].result.kind = "threw"
               /\ inv[i].result.thrown.message # Absent
               /\ FailureMessage(i) # EmptyString

\* C4: every failure is one Error whose message is the prefix "Failed to generate
\* image: ", once, followed by the message of the underlying fault when that is an
\* Error (the no-image condition included), and by "An unknown error occurred."
\* when the raised value carries no message.
C4_NormalizedFailure ==
    \A i \in Inv :
        /\ (Terminal(i) /\ ~Answered(i)) => inv[i].st = "Failed"
        /\ inv[i].st = "Failed" =>
            /\ inv[i].result.kind = "threw"
            /\ inv[i].result.thrown.isError
            /\ FailureMessage(i) # EmptyString
            /\ Head(FailureMessage(i)) = Prefix
            /\ (Answered(i) \/ inv[i].promise.thrown.isError)
                   => Tail(FailureMessage(i)) = Underlying(i)
            /\ (~Answered(i) /\ inv[i].promise.thrown.message = Absent)
                   => Tail(FailureMessage(i)) = UnknownMessage

\* A transport fault with a message, reported with the prefix.
C4_Witness ==
    \E i \in Inv :
        /\ inv[i].st = "Failed"
        /\ inv[i].promise = Rejected(Thrown(TRUE, Some(Str("connection reset"))))
        /\ FailureMessage(i) = <<Prefix, "connection reset">>

\* C5: with invocations overlapping, each settles with the result that its own
\* request's response determines, whatever the others were given or answered, a
\* resumed invocation is never held back by another, and its request stays its own.
C5_Independent ==
    \A i \in Inv :
        /\ Terminal(i) => inv[i].result = OwnSettlement(i)
        /\ (inv[i].st = "Requesting" /\ inv[i].promise # Pending) => ENABLED Resume(i)
        /\ inv[i].st # "Idle" =>
               \E in \in Inputs : inv[i].request = Request(in.data, in.mimeType, in.prompt)

\* Two invocations with different inputs, both sent; the one answered with an
\* image has settled while the other, answered with a fault, has yet to resume.
C5_Witness ==
    \E i, j \in Inv :
        /\ inv[i].request.data # inv[j].request.data
        /\ inv[i].st = "Succeeded"
        /\ inv[i].result.value = Some(Str("BBBB"))
        /\ inv[j].st = "Requesting"
        /\ inv[j].promise.kind = "rejected"

\* C6: an invocation goes Idle -> Requesting -> Succeeded or Failed; it sends one
\* request, settles once, never leaves its terminal state and is never sent again.
C6_StateOk ==
    \A i \in Inv :
        /\ inv[i].st \in {"Idle", "Requesting", "Succeeded", "Failed"}
        /\ inv[i].st = "Idle" => inv[i].calls = 0
        /\ inv[i].st # "Idle" => inv[i].calls = 1
        /\ Terminal(i) <=> inv[i].result # Unsettled

C6_StepOk ==
    \A i \in Inv :
        /\ Terminal(i) => inv'[i] = inv[i]
        /\ inv'[i].st # inv[i].st =>
               \/ inv[i].st = "Idle" /\ inv'[i].st = "Requesting"
               \/ inv[i].st = "Requesting" /\ inv'[i].st \in {"Succeeded", "Failed"}
        /\ inv'[i].calls # inv[i].calls => (inv[i].st = "Idle" /\ inv'[i].calls = 1)

C6_OneRequestOneSettlement == []C6_StateOk /\ [][C6_StepOk]_vars

\* An invocation that failed, with its one request, beside one in flight.
C6_Witness ==
    \E i, j \in Inv :
        /\ inv[i].st = "Failed" /\ inv[i].calls = 1
        /\ inv[j].st = "Requesting"

\* C7: without the API credential the module fails at load: nothing is invoked, no
\* request is sent and the App does not start.
C7_NoCredentialNoStart ==
    ~Truthy(apiKey) =>
        /\ module # "ready"
        /\ \A i \in Inv : inv[i] = IdleInvocation
        /\ originalImage = Absent /\ reading = EmptyBag /\ ~isLoading

\* The credential is absent and the module's evaluation has failed.
C7_Witness == apiKey = Absent /\ module = "failed"

\* C8: when generate invocations overlap, the displayed state after all have
\* settled is what the one that settled last wrote.
C8_Written(s) ==
    IF s.kind = "returned"
    THEN /\ editedImage' = Some(<<"data:image/png;base64,">> \o Interpolate(s.value))
         /\ generatedAccessory' = Some(accessoryType)
         /\ error' = Absent
    ELSE /\ error' = s.thrown.message
         /\ editedImage' = Absent
         /\ generatedAccessory' = Absent

C8_LastSettledStep ==
    \A i \in Inv :
        (/\ inv[i].caller = "app" /\ inv[i].st = "Requesting" /\ Terminal(i)'
         /\ \A j \in Inv : inv'[j].st # "Requesting")
            => C8_Written(inv'[i].result)

C9_ShownStep ==
    \A i \in Inv :
        (inv[i].caller = "app" /\ inv[i].st = "Requesting" /\ Terminal(i)'
         /\ editedImage' # Absent)
            => /\ originalImage' # Absent
               /\ Get(originalImage').base64 = inv[i].request.data

C9_EditedMatchesOriginal == [][C9_ShownStep]_vars

\* C10: error and editedImage are never both set; generatedAccessory is set only
\* with editedImage; while loading, neither error nor editedImage is set; when an
\* invocation settles, isLoading is false and exactly one of error and editedImage
\* is set.
C10_StateOk ==
    /\ ~(error # Absent /\ editedImage # Absent)
    /\ generatedAccessory # Absent => editedImage # Absent
    /\ isLoading => (error = Absent /\ editedImage = Absent)

C10_SettleStep ==
    \A i \in Inv :
        (inv[i].caller = "app" /\ inv[i].st = "Requesting" /\ Terminal(i)')
            => /\ ~isLoading'
               /\ (error' # Absent) # (editedImage' # Absent)

C10_Unambiguous == []C10_StateOk /\ [][C10_SettleStep]_vars

\* A result is displayed: an edited image with its accessory and no error.
C10_Witness ==
    /\ ~isLoading
    /\ editedImage # Absent /\ generatedAccessory # Absent /\ error = Absent
    /\ \E i \in Inv : inv[i].caller = "app" /\ inv[i].st = "Succeeded"

====
